---- MODULE Spec2Model ----
(***************************************************************************)
(* Lister backend: the access-control rules of the list, item, comment    *)
(* and group routes, over the relational store they read and write.       *)
(* Every mutating handler is an operator from (store, request) to          *)
(* (status, new rows) and an action that applies it; the read handlers    *)
(* are operators returning the HTTP status of the reply.                   *)
(***************************************************************************)
EXTENDS Integers, Sequences, FiniteSets, TLC

(* ---------------- bounds of the model ---------------- *)
MaxLists == 1
MaxGroups == 1
MaxItems == 1
MaxComments == 2
MaxShareReq == 2
MaxOver == 1
MaxInFlight == 2
MaxUsers == 2
MaxCross == 2

(* ---------------- program constants ---------------- *)
ListLimit == 100
CommentLimit == 100
ShareLimit == 100
ItemLimit == 1000
MemberLimit == 100

(* ---------------- value universes ---------------- *)
UserIds == {"u1", "u2", "u3"}
NoUser == "u0"
AnyUserId == UserIds \cup {NoUser}
ListIds == 1..MaxLists
GroupIds == 1..MaxGroups
ItemIds == 1..MaxItems
CommentIds == 1..MaxComments
Undefined == "undefined"
Null == "null"
TextInputs == {"a", "b ", " "}
GroupNames == {"n"}
GroupDescriptions == {"d"}
ItemTitles == {"a"}
ItemDescriptions == {"d"}

VARIABLES users, lists, listSeq, groups, groupSeq, members, shared,
          items, itemSeq, comments, commentSeq, pending, accounts, userSeq

vars == <<users, lists, listSeq, groups, groupSeq, members, shared,
          items, itemSeq, comments, commentSeq, pending, accounts, userSeq>>

store == <<users, lists, listSeq, groups, groupSeq, members, shared,
           items, itemSeq, comments, commentSeq, pending, accounts, userSeq>>

(* String.prototype.trim on the inputs of the model *)
Trim(s) == CASE s = "b " -> "b"
             [] s = " " -> ""
             [] OTHER -> s

(* `!text || text.trim().length === 0` *)
IsBlank(s) == s = Undefined \/ s = "" \/ Trim(s) = ""

(* rows referencing a parent row: foreign keys without ON DELETE *)
ItemsOfList(l) == {i \in DOMAIN items : items[i].list = l}
CommentsOfItem(i) == {c \in DOMAIN comments : comments[c].item = i}

(* `group.members?.some(m => m.id === userId) || group.createdBy === userId` *)
IsMember(userId, g) == <<g, userId>> \in members \/ groups[g].createdBy = userId

(* mutant: the query forgets `group.createdBy = :userId` *)
SharedGroupsQuery_MembersOnly(userId, listId) ==
  IF listId \notin DOMAIN lists THEN {}
  ELSE {g \in DOMAIN groups : <<g, listId>> \in shared /\ <<g, userId>> \in members}

(* the query builder of checkListAccess / checkCommentAccess:              *)
(* list LEFT JOIN sharedWithGroups LEFT JOIN members                       *)
(* WHERE list.id = :listId AND (group.createdBy = :userId OR member.id = :userId) *)
SharedGroupsQuery(userId, listId) ==
  IF listId \notin DOMAIN lists THEN {}
  ELSE {g \in DOMAIN groups :
          /\ <<g, listId>> \in shared
          /\ (groups[g].createdBy = userId \/ <<g, userId>> \in members)}

(* listRepository.findOne({ where: { id, user: userId } }) *)
FindOwnedList(userId, listId) ==
  listId \in DOMAIN lists /\ lists[listId].user = userId

(* mutant: only the owner reads a list *)
checkListAccess_OwnerOnly(userId, listId) ==
  IF FindOwnedList(userId, listId) THEN "owner" ELSE "null"

checkListAccess(userId, listId) ==
  IF FindOwnedList(userId, listId) THEN "owner"
  ELSE IF SharedGroupsQuery(userId, listId) # {} THEN "shared"
  ELSE "null"

(* ---------------- lists ---------------- *)

(* GET /lists/:id *)
GetListStatus(userId, id) ==
  IF checkListAccess(userId, id) = "null" THEN 404 ELSE 200

(* mutant: the comparison with the cap is strict *)
CreateListH_OffByOne(userId, title) ==
  IF IsBlank(title) THEN [status |-> 400, lists |-> lists, listSeq |-> listSeq]
  ELSE IF Cardinality({l \in DOMAIN lists : lists[l].user = userId}) > ListLimit
    THEN [status |-> 400, lists |-> lists, listSeq |-> listSeq]
  ELSE [status |-> 201,
        lists |-> (listSeq + 1) :> [user |-> userId, title |-> Trim(title)] @@ lists,
        listSeq |-> listSeq + 1]

(* POST /lists *)
CreateListH(userId, title) ==
  IF IsBlank(title) THEN [status |-> 400, lists |-> lists, listSeq |-> listSeq]
  ELSE IF Cardinality({l \in DOMAIN lists : lists[l].user = userId}) >= ListLimit
    THEN [status |-> 400, lists |-> lists, listSeq |-> listSeq]
  ELSE [status |-> 201,
        lists |-> (listSeq + 1) :> [user |-> userId, title |-> Trim(title)] @@ lists,
        listSeq |-> listSeq + 1]

(* mutant: whoever may read the list may rename it *)
UpdateListH_AnyReader(userId, id, title) ==
  IF IsBlank(title) THEN [status |-> 400, lists |-> lists]
  ELSE IF checkListAccess(userId, id) = "null" THEN [status |-> 404, lists |-> lists]
  ELSE [status |-> 200, lists |-> [lists EXCEPT ![id].title = Trim(title)]]

(* PUT /lists/:id *)
UpdateListH(userId, id, title) ==
  IF IsBlank(title) THEN [status |-> 400, lists |-> lists]
  ELSE IF ~FindOwnedList(userId, id) THEN [status |-> 404, lists |-> lists]
  ELSE [status |-> 200, lists |-> [lists EXCEPT ![id].title = Trim(title)]]

(* DELETE /lists/:id; the items' foreign key blocks the removal of a list  *)
(* that still has items, the junction rows go with the list                *)
DeleteListH(userId, id) ==
  IF ~FindOwnedList(userId, id) THEN [status |-> 404, lists |-> lists, shared |-> shared]
  ELSE IF ItemsOfList(id) # {} THEN [status |-> 500, lists |-> lists, shared |-> shared]
  ELSE [status |-> 204,
        lists |-> [l \in DOMAIN lists \ {id} |-> lists[l]],
        shared |-> {e \in shared : e[2] # id}]

GetList(userId, id) ==
  /\ GetListStatus(userId, id) \in {200, 404}
  /\ UNCHANGED store

CreateList(userId, title) ==
  /\ LET r == CreateListH(userId, title) IN
       /\ lists' = r.lists
       /\ listSeq' = r.listSeq
  /\ UNCHANGED <<users, groups, groupSeq, members, shared, items, itemSeq, comments, commentSeq, pending, accounts, userSeq>>

UpdateList(userId, id, title) ==
  /\ LET r == UpdateListH(userId, id, title) IN
       /\ lists' = r.lists
  /\ UNCHANGED <<users, listSeq, groups, groupSeq, members, shared, items, itemSeq, comments, commentSeq, pending, accounts, userSeq>>

DeleteList(userId, id) ==
  /\ LET r == DeleteListH(userId, id) IN
       /\ lists' = r.lists
       /\ shared' = r.shared
  /\ UNCHANGED <<users, listSeq, groups, groupSeq, members, items, itemSeq, comments, commentSeq, pending, accounts, userSeq>>

(* POST /lists/:id/share; groupIds is the array of the request body *)
RECURSIVE ShareCheck(_, _, _)
ShareCheck(userId, groupIds, k) ==
  IF k > Len(groupIds) THEN 200
  ELSE IF groupIds[k] \notin DOMAIN groups THEN 404
  ELSE IF ~IsMember(userId, groupIds[k]) THEN 403
  ELSE ShareCheck(userId, groupIds, k + 1)

SharedWithGroups(listId) == {g \in DOMAIN groups : <<g, listId>> \in shared}

ShareListH(userId, id, groupIds) ==
  IF ~FindOwnedList(userId, id) THEN [status |-> 404, shared |-> shared]
  ELSE IF Cardinality(SharedWithGroups(id)) + Len(groupIds) > ShareLimit
    THEN [status |-> 400, shared |-> shared]
  ELSE IF ShareCheck(userId, groupIds, 1) # 200
    THEN [status |-> ShareCheck(userId, groupIds, 1), shared |-> shared]
  ELSE [status |-> 200,
        shared |-> shared \cup {<<groupIds[k], id>> : k \in 1..Len(groupIds)}]

(* DELETE /lists/:id/share/:groupId *)
UnshareListH(userId, id, groupId) ==
  IF ~FindOwnedList(userId, id) THEN [status |-> 404, shared |-> shared]
  ELSE IF groupId \notin SharedWithGroups(id) THEN [status |-> 404, shared |-> shared]
  ELSE [status |-> 200, shared |-> shared \ {<<groupId, id>>}]

ShareList(userId, id, groupIds) ==
  /\ LET r == ShareListH(userId, id, groupIds) IN
       /\ shared' = r.shared
  /\ UNCHANGED <<users, lists, listSeq, groups, groupSeq, members, items, itemSeq, comments, commentSeq, pending, accounts, userSeq>>

UnshareList(userId, id, groupId) ==
  /\ LET r == UnshareListH(userId, id, groupId) IN
       /\ shared' = r.shared
  /\ UNCHANGED <<users, lists, listSeq, groups, groupSeq, members, items, itemSeq, comments, commentSeq, pending, accounts, userSeq>>

(* ---------------- groups ---------------- *)

(* POST /groups; an absent description is stored as NULL *)
CreateGroupH(userId, name, description) ==
  [status |-> 201,
   groups |-> (groupSeq + 1) :>
                [name |-> name,
                 description |-> IF description = Undefined THEN Null ELSE description,
                 createdBy |-> userId] @@ groups,
   groupSeq |-> groupSeq + 1]

(* Object.assign(group, updates): every key present in the body is copied *)
(* onto the entity, columns and relation arrays alike                      *)
Assign(group, updates) ==
  [name |-> IF updates.name = Undefined THEN group.name ELSE updates.name,
   description |-> IF updates.description = Undefined THEN group.description
                   ELSE updates.description,
   createdBy |-> IF updates.createdBy = Undefined THEN group.createdBy
                 ELSE updates.createdBy]

(* groupRepository.save(group): the columns are written and every relation *)
(* array set on the entity replaces the junction rows of the group; a key  *)
(* that references no row violates its foreign key                         *)
SaveViolatesForeignKey(groupId, updates) ==
  \/ Assign(groups[groupId], updates).createdBy \notin users
  \/ (updates.members # <<>> /\ ~(updates.members[1] \subseteq users))
  \/ (updates.sharedLists # <<>> /\ ~(updates.sharedLists[1] \subseteq DOMAIN lists))

(* PUT /groups/:id; the body schema does not forbid additional properties *)
UpdateGroupH(userId, groupId, updates) ==
  IF groupId \notin DOMAIN groups
    THEN [status |-> 404, groups |-> groups, members |-> members, shared |-> shared]
  ELSE IF groups[groupId].createdBy # userId
    THEN [status |-> 403, groups |-> groups, members |-> members, shared |-> shared]
  ELSE IF SaveViolatesForeignKey(groupId, updates)
    THEN [status |-> 500, groups |-> groups, members |-> members, shared |-> shared]
  ELSE [status |-> 200,
        groups |-> [groups EXCEPT ![groupId] = Assign(groups[groupId], updates)],
        members |-> IF updates.members = <<>> THEN members
                    ELSE {e \in members : e[1] # groupId}
                         \cup {<<groupId, m>> : m \in updates.members[1]},
        shared |-> IF updates.sharedLists = <<>> THEN shared
                   ELSE {e \in shared : e[1] # groupId}
                        \cup {<<groupId, l>> : l \in updates.sharedLists[1]}]

(* mutant: the junction rows of the group stay behind *)
DeleteGroupH_KeepsEdges(userId, groupId) ==
  IF groupId \notin DOMAIN groups
    THEN [status |-> 404, groups |-> groups, members |-> members, shared |-> shared]
  ELSE IF groups[groupId].createdBy # userId
    THEN [status |-> 403, groups |-> groups, members |-> members, shared |-> shared]
  ELSE [status |-> 204,
        groups |-> [g \in DOMAIN groups \ {groupId} |-> groups[g]],
        members |-> members,
        shared |-> shared]

(* DELETE /groups/:id; the junction rows of the group go with it *)
DeleteGroupH(userId, groupId) ==
  IF groupId \notin DOMAIN groups
    THEN [status |-> 404, groups |-> groups, members |-> members, shared |-> shared]
  ELSE IF groups[groupId].createdBy # userId
    THEN [status |-> 403, groups |-> groups, members |-> members, shared |-> shared]
  ELSE [status |-> 204,
        groups |-> [g \in DOMAIN groups \ {groupId} |-> groups[g]],
        members |-> {e \in members : e[1] # groupId},
        shared |-> {e \in shared : e[1] # groupId}]

(* mutant: any member of the group may add members *)
AddMemberH_AnyMember(userId, groupId, newMemberId) ==
  IF groupId \notin DOMAIN groups THEN [status |-> 404, members |-> members]
  ELSE IF ~IsMember(userId, groupId) THEN [status |-> 403, members |-> members]
  ELSE IF newMemberId \notin users THEN [status |-> 404, members |-> members]
  ELSE IF <<groupId, newMemberId>> \in members THEN [status |-> 400, members |-> members]
  ELSE [status |-> 201, members |-> members \cup {<<groupId, newMemberId>>}]

(* POST /groups/:id/members *)
AddMemberH(userId, groupId, newMemberId) ==
  IF groupId \notin DOMAIN groups THEN [status |-> 404, members |-> members]
  ELSE IF groups[groupId].createdBy # userId THEN [status |-> 403, members |-> members]
  ELSE IF newMemberId \notin users THEN [status |-> 404, members |-> members]
  ELSE IF <<groupId, newMemberId>> \in members THEN [status |-> 400, members |-> members]
  ELSE [status |-> 201, members |-> members \cup {<<groupId, newMemberId>>}]

(* mutant: the members relation is the only way in, the creator is not    *)
(* recognised unless listed                                                *)
GetGroupStatus_MembersOnly(userId, groupId) ==
  IF groupId \notin DOMAIN groups THEN 404
  ELSE IF <<groupId, userId>> \notin members THEN 403
  ELSE 200

(* GET /groups/:id *)
GetGroupStatus(userId, groupId) ==
  IF groupId \notin DOMAIN groups THEN 404
  ELSE IF ~IsMember(userId, groupId) THEN 403
  ELSE 200

(* GET /groups/:id/members *)
GetGroupMembersStatus(userId, groupId) ==
  IF groupId \notin DOMAIN groups THEN 404
  ELSE IF ~IsMember(userId, groupId) THEN 403
  ELSE 200

(* GET /groups/:id/shared-lists *)
GetGroupSharedListsStatus(userId, groupId) ==
  IF groupId \notin DOMAIN groups THEN 404
  ELSE IF ~IsMember(userId, groupId) THEN 403
  ELSE 200

(* mutant: only the creator removes members *)
RemoveMemberH_CreatorOnly(currentUserId, groupId, userIdToRemove) ==
  IF groupId \notin DOMAIN groups THEN [status |-> 404, members |-> members]
  ELSE IF groups[groupId].createdBy # currentUserId
    THEN [status |-> 403, members |-> members]
  ELSE IF <<groupId, userIdToRemove>> \notin members THEN [status |-> 404, members |-> members]
  ELSE [status |-> 204, members |-> members \ {<<groupId, userIdToRemove>>}]

(* DELETE /groups/:id/members/:userId *)
RemoveMemberH(currentUserId, groupId, userIdToRemove) ==
  IF groupId \notin DOMAIN groups THEN [status |-> 404, members |-> members]
  ELSE IF groups[groupId].createdBy # currentUserId /\ currentUserId # userIdToRemove
    THEN [status |-> 403, members |-> members]
  ELSE IF <<groupId, userIdToRemove>> \notin members THEN [status |-> 404, members |-> members]
  ELSE [status |-> 204, members |-> members \ {<<groupId, userIdToRemove>>}]

(* POST /groups/:id/shared-lists *)
ShareListWithGroupH(userId, groupId, listId) ==
  IF groupId \notin DOMAIN groups THEN [status |-> 404, shared |-> shared]
  ELSE IF ~IsMember(userId, groupId) THEN [status |-> 403, shared |-> shared]
  ELSE IF listId \notin DOMAIN lists THEN [status |-> 404, shared |-> shared]
  ELSE IF lists[listId].user # userId THEN [status |-> 403, shared |-> shared]
  ELSE IF <<groupId, listId>> \in shared THEN [status |-> 400, shared |-> shared]
  ELSE [status |-> 201, shared |-> shared \cup {<<groupId, listId>>}]

(* DELETE /groups/:id/shared-lists/:listId *)
UnshareListFromGroupH(userId, groupId, listId) ==
  IF groupId \notin DOMAIN groups THEN [status |-> 404, shared |-> shared]
  ELSE IF listId \notin DOMAIN lists THEN [status |-> 404, shared |-> shared]
  ELSE IF lists[listId].user # userId THEN [status |-> 403, shared |-> shared]
  ELSE IF <<groupId, listId>> \notin shared THEN [status |-> 404, shared |-> shared]
  ELSE [status |-> 204, shared |-> shared \ {<<groupId, listId>>}]

GetGroup(userId, groupId) ==
  /\ GetGroupStatus(userId, groupId) \in {200, 403, 404}
  /\ UNCHANGED store

GetGroupMembers(userId, groupId) ==
  /\ GetGroupMembersStatus(userId, groupId) \in {200, 403, 404}
  /\ UNCHANGED store

GetGroupSharedLists(userId, groupId) ==
  /\ GetGroupSharedListsStatus(userId, groupId) \in {200, 403, 404}
  /\ UNCHANGED store

CreateGroup(userId, name, description) ==
  /\ LET r == CreateGroupH(userId, name, description) IN
       /\ groups' = r.groups
       /\ groupSeq' = r.groupSeq
  /\ UNCHANGED <<users, lists, listSeq, members, shared, items, itemSeq, comments, commentSeq, pending, accounts, userSeq>>

UpdateGroup(userId, groupId, updates) ==
  /\ LET r == UpdateGroupH(userId, groupId, updates) IN
       /\ groups' = r.groups
       /\ members' = r.members
       /\ shared' = r.shared
  /\ UNCHANGED <<users, lists, listSeq, groupSeq, items, itemSeq, comments, commentSeq, pending, accounts, userSeq>>

DeleteGroup(userId, groupId) ==
  /\ LET r == DeleteGroupH(userId, groupId) IN
       /\ groups' = r.groups
       /\ members' = r.members
       /\ shared' = r.shared
  /\ UNCHANGED <<users, lists, listSeq, groupSeq, items, itemSeq, comments, commentSeq, pending, accounts, userSeq>>

AddMember(userId, groupId, newMemberId) ==
  /\ LET r == AddMemberH(userId, groupId, newMemberId) IN
       /\ members' = r.members
  /\ UNCHANGED <<users, lists, listSeq, groups, groupSeq, shared, items, itemSeq, comments, commentSeq, pending, accounts, userSeq>>

RemoveMember(currentUserId, groupId, userIdToRemove) ==
  /\ LET r == RemoveMemberH(currentUserId, groupId, userIdToRemove) IN
       /\ members' = r.members
  /\ UNCHANGED <<users, lists, listSeq, groups, groupSeq, shared, items, itemSeq, comments, commentSeq, pending, accounts, userSeq>>

ShareListWithGroup(userId, groupId, listId) ==
  /\ LET r == ShareListWithGroupH(userId, groupId, listId) IN
       /\ shared' = r.shared
  /\ UNCHANGED <<users, lists, listSeq, groups, groupSeq, members, items, itemSeq, comments, commentSeq, pending, accounts, userSeq>>

UnshareListFromGroup(userId, groupId, listId) ==
  /\ LET r == UnshareListFromGroupH(userId, groupId, listId) IN
       /\ shared' = r.shared
  /\ UNCHANGED <<users, lists, listSeq, groups, groupSeq, members, items, itemSeq, comments, commentSeq, pending, accounts, userSeq>>

(* ---------------- items ---------------- *)

(* mutant: shared access counts as ownership *)
checkListOwnership_OrShared(userId, listId) == checkListAccess(userId, listId) # "null"

(* checkListOwnership: listRepository.findOne({ where: { id: listId, user: userId } }) *)
checkListOwnership(userId, listId) == FindOwnedList(userId, listId)

(* itemRepository.findOne({ where: { id: itemId, list: listId } }) *)
FindItem(itemId, listId) ==
  itemId \in DOMAIN items /\ items[itemId].list = listId

(* GET /lists/:listId/items *)
GetItemsStatus(userId, listId) ==
  IF ~checkListOwnership(userId, listId) THEN 404 ELSE 200

(* GET /lists/:listId/items/:itemId *)
GetItemStatus(userId, listId, itemId) ==
  IF ~checkListOwnership(userId, listId) THEN 404
  ELSE IF ~FindItem(itemId, listId) THEN 404
  ELSE 200

(* POST /lists/:listId/items *)
CreateItemH(userId, listId, title, description) ==
  IF ~checkListOwnership(userId, listId)
    THEN [status |-> 404, items |-> items, itemSeq |-> itemSeq]
  ELSE [status |-> 201,
        items |-> (itemSeq + 1) :>
                    [list |-> listId, title |-> title,
                     description |-> IF description = Undefined THEN Null ELSE description]
                  @@ items,
        itemSeq |-> itemSeq + 1]

(* PUT /lists/:listId/items/:itemId *)
UpdateItemH(userId, listId, itemId, title, description) ==
  IF ~checkListOwnership(userId, listId) THEN [status |-> 404, items |-> items]
  ELSE IF ~FindItem(itemId, listId) THEN [status |-> 404, items |-> items]
  ELSE [status |-> 200,
        items |-> [items EXCEPT
                     ![itemId].title = IF title # Undefined THEN title ELSE @,
                     ![itemId].description = IF description # Undefined THEN description ELSE @]]

(* DELETE /lists/:listId/items/:itemId; the comments' foreign key blocks  *)
(* the removal of an item that still has comments                          *)
DeleteItemH(userId, listId, itemId) ==
  IF ~checkListOwnership(userId, listId) THEN [status |-> 404, items |-> items]
  ELSE IF ~FindItem(itemId, listId) THEN [status |-> 404, items |-> items]
  ELSE IF CommentsOfItem(itemId) # {} THEN [status |-> 500, items |-> items]
  ELSE [status |-> 204, items |-> [i \in DOMAIN items \ {itemId} |-> items[i]]]

GetItems(userId, listId) ==
  /\ GetItemsStatus(userId, listId) \in {200, 404}
  /\ UNCHANGED store

GetItem(userId, listId, itemId) ==
  /\ GetItemStatus(userId, listId, itemId) \in {200, 404}
  /\ UNCHANGED store

CreateItem(userId, listId, title, description) ==
  /\ LET r == CreateItemH(userId, listId, title, description) IN
       /\ items' = r.items
       /\ itemSeq' = r.itemSeq
  /\ UNCHANGED <<users, lists, listSeq, groups, groupSeq, members, shared, comments, commentSeq, pending, accounts, userSeq>>

UpdateItem(userId, listId, itemId, title, description) ==
  /\ LET r == UpdateItemH(userId, listId, itemId, title, description) IN
       /\ items' = r.items
  /\ UNCHANGED <<users, lists, listSeq, groups, groupSeq, members, shared, itemSeq, comments, commentSeq, pending, accounts, userSeq>>

DeleteItem(userId, listId, itemId) ==
  /\ LET r == DeleteItemH(userId, listId, itemId) IN
       /\ items' = r.items
  /\ UNCHANGED <<users, lists, listSeq, groups, groupSeq, members, shared, itemSeq, comments, commentSeq, pending, accounts, userSeq>>

(* ---------------- comments ---------------- *)

(* mutant: the owner rule is missing *)
checkCommentAccess_NoOwnerRule(userId, listId, itemId) ==
  IF listId \notin DOMAIN lists THEN "null"
  ELSE IF SharedGroupsQuery(userId, listId) = {} THEN "notShared"
  ELSE IF ~(itemId \in DOMAIN items /\ items[itemId].list = listId) THEN "null"
  ELSE "ok"

(* mutant: the item is looked up by its id alone *)
checkCommentAccess_ItemByIdOnly(userId, listId, itemId) ==
  IF listId \notin DOMAIN lists THEN "null"
  ELSE IF lists[listId].user = userId THEN "owner"
  ELSE IF SharedGroupsQuery(userId, listId) = {} THEN "notShared"
  ELSE IF itemId \notin DOMAIN items THEN "null"
  ELSE "ok"

(* null | { canAccess: false, reason } | { canAccess: true, list, item } *)
checkCommentAccess(userId, listId, itemId) ==
  IF listId \notin DOMAIN lists THEN "null"
  ELSE IF lists[listId].user = userId THEN "owner"
  ELSE IF SharedGroupsQuery(userId, listId) = {} THEN "notShared"
  ELSE IF ~FindItem(itemId, listId) THEN "null"
  ELSE "ok"

(* the replies common to the five comment handlers before they touch a comment *)
AccessStatus(accessResult) ==
  IF accessResult = "null" THEN 404
  ELSE IF accessResult # "ok" THEN 403
  ELSE 200

(* commentRepository.findOne({ where: { id: commentId, item: itemId } }) *)
FindComment(commentId, itemId) ==
  commentId \in DOMAIN comments /\ comments[commentId].item = itemId

(* GET /lists/:listId/items/:itemId/comments *)
GetCommentsStatus(userId, listId, itemId) ==
  AccessStatus(checkCommentAccess(userId, listId, itemId))

(* GET /lists/:listId/items/:itemId/comments/:commentId *)
GetCommentStatus(userId, listId, itemId, commentId) ==
  IF AccessStatus(checkCommentAccess(userId, listId, itemId)) # 200
    THEN AccessStatus(checkCommentAccess(userId, listId, itemId))
  ELSE IF ~FindComment(commentId, itemId) THEN 404
  ELSE 200

(* mutant: creating a comment only needs the item to exist in the list *)
CreateCommentH_SkipsAccess(userId, listId, itemId, text) ==
  IF ~FindItem(itemId, listId)
    THEN [status |-> 404, comments |-> comments, commentSeq |-> commentSeq]
  ELSE IF IsBlank(text)
    THEN [status |-> 400, comments |-> comments, commentSeq |-> commentSeq]
  ELSE [status |-> 201,
        comments |-> (commentSeq + 1) :>
                       [item |-> itemId, sourceUser |-> userId, text |-> Trim(text)]
                     @@ comments,
        commentSeq |-> commentSeq + 1]

(* mutant: the count of the item's comments is not consulted *)
CreateCommentH_NoLimit(userId, listId, itemId, text) ==
  IF AccessStatus(checkCommentAccess(userId, listId, itemId)) # 200
    THEN [status |-> AccessStatus(checkCommentAccess(userId, listId, itemId)),
          comments |-> comments, commentSeq |-> commentSeq]
  ELSE IF IsBlank(text)
    THEN [status |-> 400, comments |-> comments, commentSeq |-> commentSeq]
  ELSE [status |-> 201,
        comments |-> (commentSeq + 1) :>
                       [item |-> itemId, sourceUser |-> userId, text |-> Trim(text)]
                     @@ comments,
        commentSeq |-> commentSeq + 1]

(* POST /lists/:listId/items/:itemId/comments *)
CreateCommentH(userId, listId, itemId, text) ==
  IF AccessStatus(checkCommentAccess(userId, listId, itemId)) # 200
    THEN [status |-> AccessStatus(checkCommentAccess(userId, listId, itemId)),
          comments |-> comments, commentSeq |-> commentSeq]
  ELSE IF IsBlank(text)
    THEN [status |-> 400, comments |-> comments, commentSeq |-> commentSeq]
  ELSE IF Cardinality(CommentsOfItem(itemId)) >= CommentLimit
    THEN [status |-> 400, comments |-> comments, commentSeq |-> commentSeq]
  ELSE [status |-> 201,
        comments |-> (commentSeq + 1) :>
                       [item |-> itemId, sourceUser |-> userId, text |-> Trim(text)]
                     @@ comments,
        commentSeq |-> commentSeq + 1]

(* mutant: the author check is missing *)
UpdateCommentH_NoAuthorCheck(userId, listId, itemId, commentId, text) ==
  IF AccessStatus(checkCommentAccess(userId, listId, itemId)) # 200
    THEN [status |-> AccessStatus(checkCommentAccess(userId, listId, itemId)),
          comments |-> comments]
  ELSE IF IsBlank(text) THEN [status |-> 400, comments |-> comments]
  ELSE IF ~FindComment(commentId, itemId) THEN [status |-> 404, comments |-> comments]
  ELSE [status |-> 200, comments |-> [comments EXCEPT ![commentId].text = Trim(text)]]

(* PUT /lists/:listId/items/:itemId/comments/:commentId *)
UpdateCommentH(userId, listId, itemId, commentId, text) ==
  IF AccessStatus(checkCommentAccess(userId, listId, itemId)) # 200
    THEN [status |-> AccessStatus(checkCommentAccess(userId, listId, itemId)),
          comments |-> comments]
  ELSE IF IsBlank(text) THEN [status |-> 400, comments |-> comments]
  ELSE IF ~FindComment(commentId, itemId) THEN [status |-> 404, comments |-> comments]
  ELSE IF comments[commentId].sourceUser # userId THEN [status |-> 403, comments |-> comments]
  ELSE [status |-> 200, comments |-> [comments EXCEPT ![commentId].text = Trim(text)]]

(* DELETE /lists/:listId/items/:itemId/comments/:commentId *)
DeleteCommentH(userId, listId, itemId, commentId) ==
  IF AccessStatus(checkCommentAccess(userId, listId, itemId)) # 200
    THEN [status |-> AccessStatus(checkCommentAccess(userId, listId, itemId)),
          comments |-> comments]
  ELSE IF ~FindComment(commentId, itemId) THEN [status |-> 404, comments |-> comments]
  ELSE IF comments[commentId].sourceUser # userId THEN [status |-> 403, comments |-> comments]
  ELSE [status |-> 204, comments |-> [c \in DOMAIN comments \ {commentId} |-> comments[c]]]

GetComments(userId, listId, itemId) ==
  /\ GetCommentsStatus(userId, listId, itemId) \in {200, 403, 404}
  /\ UNCHANGED store

GetComment(userId, listId, itemId, commentId) ==
  /\ GetCommentStatus(userId, listId, itemId, commentId) \in {200, 403, 404}
  /\ UNCHANGED store

CreateComment(userId, listId, itemId, text) ==
  /\ LET r == CreateCommentH(userId, listId, itemId, text) IN
       /\ comments' = r.comments
       /\ commentSeq' = r.commentSeq
  /\ UNCHANGED <<users, lists, listSeq, groups, groupSeq, members, shared, items, itemSeq, pending, accounts, userSeq>>

UpdateComment(userId, listId, itemId, commentId, text) ==
  /\ LET r == UpdateCommentH(userId, listId, itemId, commentId, text) IN
       /\ comments' = r.comments
  /\ UNCHANGED <<users, lists, listSeq, groups, groupSeq, members, shared, items, itemSeq, commentSeq, pending, accounts, userSeq>>

DeleteComment(userId, listId, itemId, commentId) ==
  /\ LET r == DeleteCommentH(userId, listId, itemId, commentId) IN
       /\ comments' = r.comments
  /\ UNCHANGED <<users, lists, listSeq, groups, groupSeq, members, shared, items, itemSeq, commentSeq, pending, accounts, userSeq>>

(* ---------------- users ---------------- *)

Emails == {"a@x", "A@x", "b@x"}
UserNames == {"n"}
Passwords == {"p", "q"}
DefaultPassword == "default"
RoleSets == {{"user"}, {"admin", "user"}}

(* letter case folded, on the emails of the model *)
Lower(email) == IF email = "A@x" THEN "a@x" ELSE email

(* fastify.bcrypt.hash / fastify.bcrypt.compare *)
Hash(password) == <<"bcrypt", password>>
Compare(password, passwordHash) == passwordHash = Hash(password)

(* the id the database generates for the next user row *)
NextUserId == "u" \o ToString(userSeq + 1)

(* user rows of registered, activated users with role 'user' *)
RegisteredAccounts(ids) ==
  [u \in ids |-> [email |-> u \o "@x", name |-> "n", passwordHash |-> Hash("p"),
                  activated |-> TRUE, roles |-> {"user"}]]

(* userRepository.findOneBy({ email }): the comparison is exact *)
FindByEmail(email) == {u \in DOMAIN accounts : accounts[u].email = email}

(* rows that reference a user row through a foreign key without ON DELETE *)
UserIsReferenced(id) ==
  \/ \E l \in DOMAIN lists : lists[l].user = id
  \/ \E g \in DOMAIN groups : groups[g].createdBy = id
  \/ \E c \in DOMAIN comments : comments[c].sourceUser = id

Unchanged(status) ==
  [status |-> status, accounts |-> accounts, users |-> users, userSeq |-> userSeq,
   members |-> members]

(* POST /users (registration) and the row POST /users/invite creates *)
InsertUser(email, name, password) ==
  [status |-> 201,
   accounts |-> NextUserId :>
                  [email |-> email,
                   name |-> IF name = Undefined THEN Null ELSE name,
                   passwordHash |-> Hash(password),
                   activated |-> FALSE,
                   roles |-> {"user"}] @@ accounts,
   users |-> users \cup {NextUserId},
   userSeq |-> userSeq + 1,
   members |-> members]

(* POST /users *)
CreateUserH(email, name, password) ==
  IF email = Undefined \/ password = Undefined THEN Unchanged(400)
  ELSE IF FindByEmail(email) # {} THEN Unchanged(409)
  ELSE InsertUser(email, name, password)

(* POST /users/invite *)
InviteUserH(email, name) ==
  IF email = Undefined THEN Unchanged(400)
  ELSE IF FindByEmail(email) # {} THEN Unchanged(409)
  ELSE InsertUser(email, name, DefaultPassword)

(* POST /activate *)
ActivateH(email, name, password) ==
  IF email = Undefined \/ password = Undefined THEN Unchanged(400)
  ELSE IF FindByEmail(email) = {} THEN Unchanged(404)
  ELSE LET id == CHOOSE u \in FindByEmail(email) : TRUE IN
    IF accounts[id].activated THEN Unchanged(409)
    ELSE [Unchanged(200) EXCEPT
            !.accounts = [accounts EXCEPT
               ![id].name = IF name # Undefined THEN name ELSE @,
               ![id].passwordHash = Hash(password),
               ![id].activated = TRUE]]

(* PUT /users/me *)
UpdateMeH(currentUserId, email, name) ==
  IF currentUserId \notin DOMAIN accounts THEN Unchanged(401)
  ELSE IF email # Undefined /\ FindByEmail(email) \ {currentUserId} # {} THEN Unchanged(409)
  ELSE [Unchanged(200) EXCEPT
          !.accounts = [accounts EXCEPT
             ![currentUserId].email = IF email # Undefined THEN email ELSE @,
             ![currentUserId].name = IF name # Undefined THEN name ELSE @]]

(* POST /users/change-password *)
ChangePasswordH(currentUserId, currentPassword, newPassword) ==
  IF currentUserId \notin DOMAIN accounts THEN Unchanged(401)
  ELSE IF ~Compare(currentPassword, accounts[currentUserId].passwordHash) THEN Unchanged(400)
  ELSE [Unchanged(200) EXCEPT
          !.accounts = [accounts EXCEPT ![currentUserId].passwordHash = Hash(newPassword)]]

(* PUT /users/:id; an absent activated or roles key is <<>>, a present one *)
(* <<value>>                                                               *)
UpdateUserH(currentUserId, id, body) ==
  IF currentUserId # id THEN Unchanged(403)
  ELSE IF id \notin DOMAIN accounts THEN Unchanged(404)
  ELSE IF body.email # Undefined /\ FindByEmail(body.email) \ {id} # {} THEN Unchanged(409)
  ELSE [Unchanged(200) EXCEPT
          !.accounts = [accounts EXCEPT
             ![id].email = IF body.email # Undefined THEN body.email ELSE @,
             ![id].name = IF body.name # Undefined THEN body.name ELSE @,
             ![id].passwordHash = IF body.password # Undefined THEN Hash(body.password) ELSE @,
             ![id].activated = IF body.activated # <<>> THEN body.activated[1] ELSE @,
             ![id].roles = IF body.roles # <<>> THEN body.roles[1] ELSE @]]

(* DELETE /users/:id behind fastify.auth.authorize(['admin']); the rows of *)
(* the members join table go with the user, any other reference blocks the *)
(* removal                                                                 *)
DeleteUserH(currentUserId, id) ==
  IF currentUserId \in DOMAIN accounts /\ "admin" \notin accounts[currentUserId].roles
    THEN Unchanged(403)
  ELSE IF currentUserId # id THEN Unchanged(403)
  ELSE IF id \notin DOMAIN accounts THEN Unchanged(404)
  ELSE IF UserIsReferenced(id) THEN Unchanged(500)
  ELSE [status |-> 204,
        accounts |-> [u \in DOMAIN accounts \ {id} |-> accounts[u]],
        users |-> users \ {id},
        userSeq |-> userSeq,
        members |-> {e \in members : e[2] # id}]

UserStep(r) ==
  /\ accounts' = r.accounts
  /\ users' = r.users
  /\ userSeq' = r.userSeq
  /\ members' = r.members
  /\ UNCHANGED <<lists, listSeq, groups, groupSeq, shared, items, itemSeq,
                 comments, commentSeq, pending>>

CreateUser(email, name, password) == UserStep(CreateUserH(email, name, password))
InviteUser(email, name) == UserStep(InviteUserH(email, name))
Activate(email, name, password) == UserStep(ActivateH(email, name, password))
UpdateMe(currentUserId, email, name) == UserStep(UpdateMeH(currentUserId, email, name))
ChangePassword(currentUserId, currentPassword, newPassword) ==
  UserStep(ChangePasswordH(currentUserId, currentPassword, newPassword))
UpdateUser(currentUserId, id, body) == UserStep(UpdateUserH(currentUserId, id, body))
DeleteUser(currentUserId, id) == UserStep(DeleteUserH(currentUserId, id))

(* request bodies *)
NoUserUpdate ==
  [email |-> Undefined, name |-> Undefined, password |-> Undefined,
   activated |-> <<>>, roles |-> <<>>]
UserUpdates ==
  {[NoUserUpdate EXCEPT !.email = e] : e \in Emails}
  \cup {[NoUserUpdate EXCEPT !.name = n] : n \in UserNames}
  \cup {[NoUserUpdate EXCEPT !.password = p] : p \in Passwords}
  \cup {[NoUserUpdate EXCEPT !.activated = <<a>>] : a \in BOOLEAN}
  \cup {[NoUserUpdate EXCEPT !.roles = <<r>>] : r \in RoleSets}
GroupIdArrays == UNION {[1..n -> GroupIds] : n \in 0..MaxShareReq}
(* an absent relation key is <<>>, a present one <<the set of ids>> *)
NoUpdates ==
  [name |-> Undefined, description |-> Undefined, createdBy |-> Undefined,
   members |-> <<>>, sharedLists |-> <<>>]
GroupUpdates ==
  {[NoUpdates EXCEPT !.name = n] : n \in GroupNames}
  \cup {[NoUpdates EXCEPT !.description = d] : d \in GroupDescriptions}
  \cup {[NoUpdates EXCEPT !.name = n, !.description = d] :
          n \in GroupNames, d \in GroupDescriptions}
  \cup {[NoUpdates EXCEPT !.createdBy = c] : c \in AnyUserId}
  \cup {[NoUpdates EXCEPT !.members = <<ms>>] : ms \in SUBSET UserIds \cup {{NoUser}}}
  \cup {[NoUpdates EXCEPT !.sharedLists = <<ls>>] : ls \in SUBSET ListIds}

(* ---------------- the claims ---------------- *)

(* the specification's predicates, stated over the store *)
IsGroupUser(u, g) == groups[g].createdBy = u \/ <<g, u>> \in members
ReachesBySharedGroup(u, l) ==
  \E g \in DOMAIN groups : <<g, l>> \in shared /\ IsGroupUser(u, g)
canReadList(u, l) == lists[l].user = u \/ ReachesBySharedGroup(u, l)
canReadComments(u, l) == lists[l].user # u /\ ReachesBySharedGroup(u, l)

(* C1: owner comment blindness. In every reachable state, for every list L *)
(* with owner U and every item id, each of the five comment operations     *)
(* requested by U is denied and stores nothing, whatever L is shared with. *)
C1_OwnerCommentBlindness ==
  \A l \in DOMAIN lists, i \in ItemIds, c \in CommentIds, t \in TextInputs :
    LET U == lists[l].user IN
      /\ GetCommentsStatus(U, l, i) \in {403, 404}
      /\ GetCommentStatus(U, l, i, c) \in {403, 404}
      /\ CreateCommentH(U, l, i, t).status \in {403, 404}
      /\ CreateCommentH(U, l, i, t).comments = comments
      /\ UpdateCommentH(U, l, i, c, t).status \in {403, 404}
      /\ UpdateCommentH(U, l, i, c, t).comments = comments
      /\ DeleteCommentH(U, l, i, c).status \in {403, 404}
      /\ DeleteCommentH(U, l, i, c).comments = comments

(* C1 witness: the owner is creator or member of a group the list is       *)
(* shared with, and an item of the list carries a comment.                 *)
C1_Witness ==
  \E l \in DOMAIN lists, g \in DOMAIN groups, c \in DOMAIN comments :
    /\ <<g, l>> \in shared
    /\ IsGroupUser(lists[l].user, g)
    /\ items[comments[c].item].list = l

(* C2: for a user U who is not the owner of L, reading the comments of an  *)
(* existing item of L is allowed exactly when L is currently shared with a *)
(* group U created or belongs to; the reply is a function of the current   *)
(* store alone.                                                            *)
C2_NonOwnerReadsCommentsIffShared ==
  \A u \in users, i \in DOMAIN items :
    LET l == items[i].list IN
      (l \in DOMAIN lists /\ lists[l].user # u) =>
        (GetCommentsStatus(u, l, i) = 200 <=> ReachesBySharedGroup(u, l))

(* C2 witness: a user who commented on an item, hence had access, is no    *)
(* longer in any group the list is shared with and is refused.             *)
C2_Witness ==
  \E c \in DOMAIN comments :
    LET i == comments[c].item
        u == comments[c].sourceUser IN
      /\ ~ReachesBySharedGroup(u, items[i].list)
      /\ GetCommentsStatus(u, items[i].list, i) = 403

(* C3: comment symmetry. For every user, list id and item id, creating a   *)
(* comment passes the access decision exactly when reading the item's      *)
(* comments does.                                                          *)
C3_CommentSymmetry ==
  \A u \in users, l \in ListIds, i \in ItemIds :
    (\A t \in TextInputs : CreateCommentH(u, l, i, t).status \notin {403, 404})
      <=> GetCommentsStatus(u, l, i) = 200

(* C3 witness: a member may read and has created a comment, while the      *)
(* owner of the same list is refused both.                                 *)
C3_Witness ==
  \E c \in DOMAIN comments :
    LET i == comments[c].item
        l == items[i].list IN
      /\ GetCommentsStatus(comments[c].sourceUser, l, i) = 200
      /\ GetCommentsStatus(lists[l].user, l, i) = 403

(* C4 as stated: editing or deleting an existing comment is allowed        *)
(* exactly when the requester is its author, nothing else being required.  *)
C4_AuthorAlone ==
  \A c \in DOMAIN comments, u \in users :
    LET i == comments[c].item
        l == items[i].list IN
      /\ UpdateCommentH(u, l, i, c, "a").status = 200 <=> u = comments[c].sourceUser
      /\ DeleteCommentH(u, l, i, c).status = 204 <=> u = comments[c].sourceUser

(* C4 amended: editing (with a non-blank text) or deleting an existing     *)
(* comment is allowed exactly when the requester is its author and still   *)
(* has comment access to the item's list; nobody else ever gains the right.*)
C4_AuthorWithAccess ==
  \A c \in DOMAIN comments, u \in users :
    LET i == comments[c].item
        l == items[i].list
        allowed == u = comments[c].sourceUser /\ canReadComments(u, l) IN
      /\ UpdateCommentH(u, l, i, c, "a").status = 200 <=> allowed
      /\ UpdateCommentH(u, l, i, c, "b ").status = 200 <=> allowed
      /\ DeleteCommentH(u, l, i, c).status = 204 <=> allowed
      /\ ~allowed => /\ UpdateCommentH(u, l, i, c, "b ").comments = comments
                     /\ UpdateCommentH(u, l, i, c, "a").comments = comments
                     /\ DeleteCommentH(u, l, i, c).comments = comments

(* C4 witness: a comment whose author lost access, next to a user who has  *)
(* comment access to the list without being the author.                    *)
C4_Witness ==
  \E c \in DOMAIN comments, u \in users :
    LET l == items[comments[c].item].list IN
      /\ ~canReadComments(comments[c].sourceUser, l)
      /\ u # comments[c].sourceUser
      /\ canReadComments(u, l)

(* C5: ownership supremacy on list write. For every list and every user    *)
(* other than its owner, update and delete are denied and leave the lists  *)
(* and the sharing edges as they are; a success is the owner's.            *)
C5_OnlyOwnerWritesList ==
  \A u \in users, l \in ListIds, t \in TextInputs :
    /\ UpdateListH(u, l, t).status = 200 => (l \in DOMAIN lists /\ lists[l].user = u)
    /\ DeleteListH(u, l).status = 204 => (l \in DOMAIN lists /\ lists[l].user = u)
    /\ (l \in DOMAIN lists /\ lists[l].user # u) =>
         /\ UpdateListH(u, l, t).status \in {400, 404}
         /\ UpdateListH(u, l, t).lists = lists
         /\ DeleteListH(u, l).status = 404
         /\ DeleteListH(u, l).lists = lists
         /\ DeleteListH(u, l).shared = shared

(* C5 witness: a list is shared with a group that has a creator or member  *)
(* other than the list's owner.                                            *)
C5_Witness ==
  \E l \in DOMAIN lists, u \in users :
    lists[l].user # u /\ ReachesBySharedGroup(u, l)

(* C6: reading a list by id is allowed exactly when the requester owns it  *)
(* or it is shared with a group the requester created or belongs to.       *)
C6_ReadListIffOwnerOrShared ==
  \A u \in users, l \in ListIds :
    GetListStatus(u, l) = 200 <=> (l \in DOMAIN lists /\ canReadList(u, l))

(* C6 witness: one list, read by a non-owner through a shared group and    *)
(* refused to another user.                                                *)
C6_Witness ==
  \E l \in DOMAIN lists, u, v \in users :
    /\ lists[l].user # u /\ GetListStatus(u, l) = 200
    /\ GetListStatus(v, l) = 404

(* C7: creating, editing and deleting an item succeeds only for the owner  *)
(* of the item's parent list; any other request leaves the items as they   *)
(* are, shared access included.                                            *)
C7_OnlyOwnerWritesItems ==
  \A u \in users, l \in ListIds, i \in ItemIds,
     t \in ItemTitles \cup {Undefined}, d \in ItemDescriptions \cup {Undefined} :
    LET owns == l \in DOMAIN lists /\ lists[l].user = u
        create == CreateItemH(u, l, t, d)
        update == UpdateItemH(u, l, i, t, d)
        delete == DeleteItemH(u, l, i) IN
      /\ create.status = 201 => owns
      /\ update.status = 200 => (owns /\ i \in DOMAIN items /\ items[i].list = l)
      /\ delete.status = 204 => (owns /\ i \in DOMAIN items /\ items[i].list = l)
      /\ ~owns => /\ create.items = items /\ create.status = 404
                  /\ update.items = items /\ update.status = 404
                  /\ delete.items = items /\ delete.status = 404

(* C7 witness: an item exists in a list that a non-owner reaches through a *)
(* shared group.                                                           *)
C7_Witness ==
  \E i \in DOMAIN items, u \in users :
    lists[items[i].list].user # u /\ ReachesBySharedGroup(u, items[i].list)

(* C8 as stated: reading the items of a list, all of them or one by id, is *)
(* allowed exactly when the requester may read the list.                   *)
C8_ItemsReadableIffListReadable ==
  \A u \in users, l \in DOMAIN lists :
    /\ GetItemsStatus(u, l) = 200 <=> canReadList(u, l)
    /\ \A i \in ItemsOfList(l) : GetItemStatus(u, l, i) = 200 <=> canReadList(u, l)

(* C9 as stated: a request changes the sharing edges of a list only when   *)
(* it is a share or unshare request of the list's owner, or the cascade of *)
(* deleting the list or the group.                                         *)
C9_OnlyOwnerChangesSharing ==
  \A u \in users, l \in ListIds, g \in GroupIds :
    LET owns == l \in DOMAIN lists /\ lists[l].user = u
        Changed(r) == <<g, l>> \in (r.shared \ shared) \cup (shared \ r.shared)
        Removed(r) == <<g, l>> \in shared \ r.shared IN
      /\ \A gs \in GroupIdArrays : Changed(ShareListH(u, l, gs)) => owns
      /\ \A h \in GroupIds :
           /\ Changed(UnshareListH(u, l, h)) => owns
           /\ Changed(ShareListWithGroupH(u, h, l)) => owns
           /\ Changed(UnshareListFromGroupH(u, h, l)) => owns
           /\ Changed(DeleteGroupH(u, h)) => (Removed(DeleteGroupH(u, h)) /\ h = g)
      /\ \A k \in ListIds :
           Changed(DeleteListH(u, k)) => (Removed(DeleteListH(u, k)) /\ k = l)
      /\ \A up \in GroupUpdates, h \in GroupIds : Changed(UpdateGroupH(u, h, up)) => owns

(* C10: editing a group, deleting it and adding a member succeed only for  *)
(* the group's creator; for any other user the request is denied and the   *)
(* group, its member set and its shared lists stay as they are.            *)
C10_OnlyCreatorManagesGroup ==
  \A u \in users, g \in GroupIds, up \in GroupUpdates, m \in AnyUserId :
    LET creates == g \in DOMAIN groups /\ groups[g].createdBy = u
        update == UpdateGroupH(u, g, up)
        delete == DeleteGroupH(u, g)
        add == AddMemberH(u, g, m) IN
      /\ update.status = 200 => creates
      /\ delete.status = 204 => creates
      /\ add.status = 201 => creates
      /\ (g \in DOMAIN groups /\ ~creates) =>
           /\ update.status = 403 /\ delete.status = 403 /\ add.status = 403
           /\ update.groups = groups /\ update.members = members /\ update.shared = shared
           /\ delete.groups = groups /\ delete.members = members /\ delete.shared = shared
           /\ add.members = members

(* C10 witness: a group with a member who is not its creator and with a    *)
(* list shared with it.                                                    *)
C10_Witness ==
  \E g \in DOMAIN groups, u \in users, l \in DOMAIN lists :
    /\ <<g, u>> \in members
    /\ groups[g].createdBy # u
    /\ <<g, l>> \in shared

(* C11: removing member m of group G by requester u succeeds exactly when  *)
(* u is G's creator or u = m; a success removes m's membership edge and    *)
(* no other, a refusal leaves the member set as it is.                     *)
C11_RemoveMemberCreatorOrSelf ==
  \A u \in users, g \in DOMAIN groups, m \in users :
    LET r == RemoveMemberH(u, g, m)
        allowed == groups[g].createdBy = u \/ u = m IN
      /\ <<g, m>> \in members =>
           /\ r.status = 204 <=> allowed
           /\ allowed => r.members = members \ {<<g, m>>}
           /\ ~allowed => (r.status = 403 /\ r.members = members)
      /\ <<g, m>> \notin members => (r.status # 204 /\ r.members = members)

(* C11 witness: a group with two members, one of them not its creator, who *)
(* removes themselves.                                                     *)
C11_Witness ==
  \E g \in DOMAIN groups, m, n \in users :
    /\ m # n
    /\ {<<g, m>>, <<g, n>>} \subseteq members
    /\ groups[g].createdBy # m
    /\ RemoveMemberH(m, g, m).status = 204

(* C12: reading a group, its member list or its shared lists is allowed    *)
(* exactly when the requester created the group or is in its member set;   *)
(* the creator reads without being listed as a member.                     *)
C12_ReadGroupIffCreatorOrMember ==
  \A u \in users, g \in GroupIds :
    LET allowed == g \in DOMAIN groups /\ IsGroupUser(u, g) IN
      /\ GetGroupStatus(u, g) = 200 <=> allowed
      /\ GetGroupMembersStatus(u, g) = 200 <=> allowed
      /\ GetGroupSharedListsStatus(u, g) = 200 <=> allowed

(* C12 witness: a group whose creator is not in its member set, with a     *)
(* member who is not the creator and a user who is neither.                *)
C12_Witness ==
  \E g \in DOMAIN groups, m, v \in users :
    /\ <<g, groups[g].createdBy>> \notin members
    /\ <<g, m>> \in members
    /\ GetGroupStatus(groups[g].createdBy, g) = 200
    /\ GetGroupStatus(m, g) = 200
    /\ GetGroupStatus(v, g) = 403

(* the rows a cap counts *)
OwnedLists(u) == {l \in DOMAIN lists : lists[l].user = u}
MembersOfGroup(g) == {e \in members : e[1] = g}

(* C13: no user owns more than 100 lists; a creation with a valid title    *)
(* adds one list of the requester while the requester owns fewer than 100  *)
(* and is rejected, the lists staying as they are, once the requester owns *)
(* 100.                                                                    *)
C13_ListLimit ==
  \A u \in UserIds :
    /\ Cardinality(OwnedLists(u)) <= ListLimit
    /\ \A t \in {x \in TextInputs : ~IsBlank(x)} :
         LET r == CreateListH(u, t) IN
           IF Cardinality(OwnedLists(u)) < ListLimit
             THEN /\ r.status = 201
                  /\ r.listSeq = listSeq + 1
                  /\ DOMAIN r.lists = DOMAIN lists \cup {listSeq + 1}
                  /\ r.lists[listSeq + 1].user = u
                  /\ \A l \in DOMAIN lists : r.lists[l] = lists[l]
             ELSE /\ r.status = 400
                  /\ r.lists = lists
                  /\ r.listSeq = listSeq

(* C13 witness: a user created their 100th list and the next creation is   *)
(* rejected, while another user still creates.                             *)
C13_Witness ==
  \E u, v \in UserIds :
    /\ Cardinality(OwnedLists(u)) = ListLimit
    /\ listSeq >= ListLimit
    /\ CreateListH(u, "a").status = 400
    /\ CreateListH(v, "a").status = 201

(* C14 as stated: no list holds more than 1000 items, and a creation in a  *)
(* list that already holds 1000 items is rejected.                         *)
C14_ItemLimit ==
  \A l \in DOMAIN lists :
    /\ Cardinality(ItemsOfList(l)) <= ItemLimit
    /\ Cardinality(ItemsOfList(l)) >= ItemLimit =>
         \A t \in ItemTitles, d \in ItemDescriptions \cup {Undefined} :
           /\ CreateItemH(lists[l].user, l, t, d).status # 201
           /\ CreateItemH(lists[l].user, l, t, d).items = items

(* C15: no item has more than 100 comments; a creation with a valid text   *)
(* by a user with comment access adds one comment while the item has fewer *)
(* than 100 and is rejected, storing nothing, once it has 100.             *)
C15_CommentLimit ==
  \A i \in DOMAIN items :
    /\ Cardinality(CommentsOfItem(i)) <= CommentLimit
    /\ \A u \in UserIds, t \in {x \in TextInputs : ~IsBlank(x)} :
         checkCommentAccess(u, items[i].list, i) = "ok" =>
           LET r == CreateCommentH(u, items[i].list, i, t) IN
             IF Cardinality(CommentsOfItem(i)) < CommentLimit
               THEN /\ r.status = 201
                    /\ r.commentSeq = commentSeq + 1
                    /\ DOMAIN r.comments = DOMAIN comments \cup {commentSeq + 1}
                    /\ r.comments[commentSeq + 1].item = i
                    /\ \A c \in DOMAIN comments : r.comments[c] = comments[c]
               ELSE /\ r.status = 400
                    /\ r.comments = comments
                    /\ r.commentSeq = commentSeq

(* C15 witness: an item received its 100th comment and a user with comment *)
(* access is rejected on the next one.                                     *)
C15_Witness ==
  \E i \in DOMAIN items, u \in UserIds :
    /\ Cardinality(CommentsOfItem(i)) = CommentLimit
    /\ commentSeq >= CommentLimit
    /\ checkCommentAccess(u, items[i].list, i) = "ok"
    /\ CreateCommentH(u, items[i].list, i, "a").status = 400

(* C16 as stated: no group has more than 100 members, and adding a member  *)
(* to a group that already has 100 is rejected.                            *)
C16_MemberLimit ==
  \A g \in DOMAIN groups :
    /\ Cardinality(MembersOfGroup(g)) <= MemberLimit
    /\ Cardinality(MembersOfGroup(g)) >= MemberLimit =>
         \A m \in UserIds :
           /\ AddMemberH(groups[g].createdBy, g, m).status # 201
           /\ AddMemberH(groups[g].createdBy, g, m).members = members

(* C17 as stated: every list is shared with at most 100 groups, whichever  *)
(* of the two share endpoints added the edges.                             *)
C17_ShareLimit ==
  \A l \in DOMAIN lists : Cardinality(SharedWithGroups(l)) <= ShareLimit

(* C18 as stated: when creation requests for the same target interleave,  *)
(* each reading the count and then inserting, no item ever has more than   *)
(* 100 comments and no user more than 100 lists.                           *)
C18_CapsHoldUnderInterleaving ==
  /\ \A i \in DOMAIN items : Cardinality(CommentsOfItem(i)) <= CommentLimit
  /\ \A u \in UserIds : Cardinality(OwnedLists(u)) <= ListLimit

(* C19: a step that deletes group G removes every sharing edge and every   *)
(* membership edge of G and no other, leaves every list, item and comment  *)
(* as it was, and afterwards each list is still editable by its owner.     *)
C19_GroupDeleteCascade ==
  [][\A g \in DOMAIN groups :
       g \notin DOMAIN groups' =>
         /\ shared' = {e \in shared : e[1] # g}
         /\ members' = {e \in members : e[1] # g}
         /\ lists' = lists
         /\ items' = items
         /\ comments' = comments
         /\ \A l \in DOMAIN lists :
              (UpdateListH(lists[l].user, l, "a").status = 200)']_vars

(* C19 witness: the group is gone, and the list that was shared with it,   *)
(* its item and the comment a member wrote are still there.                *)
C19_Witness ==
  /\ groupSeq >= 1
  /\ DOMAIN groups = {}
  /\ shared = {} /\ members = {}
  /\ \E c \in DOMAIN comments :
       LET l == items[comments[c].item].list IN
         /\ l \in DOMAIN lists
         /\ UpdateListH(lists[l].user, l, "a").status = 200

(* C20 as stated: the owner's deletion of list L removes L together with   *)
(* every item of L, every comment on those items and every sharing edge of *)
(* L; so every item's parent list and every comment's parent item exist.   *)
C20_ListDeleteCascade ==
  /\ \A i \in DOMAIN items : items[i].list \in DOMAIN lists
  /\ \A c \in DOMAIN comments : comments[c].item \in DOMAIN items
  /\ \A e \in shared : e[2] \in DOMAIN lists
  /\ \A l \in DOMAIN lists :
       LET r == DeleteListH(lists[l].user, l) IN
         /\ r.status = 204
         /\ l \notin DOMAIN r.lists
         /\ \A e \in r.shared : e[2] # l

Init ==
  /\ users = UserIds
  /\ lists = <<>>
  /\ listSeq = 0
  /\ groups = <<>>
  /\ groupSeq = 0
  /\ members = {}
  /\ shared = {}
  /\ items = <<>>
  /\ itemSeq = 0
  /\ comments = <<>>
  /\ commentSeq = 0
  /\ pending = {}
  /\ accounts = RegisteredAccounts(users)
  /\ userSeq = Cardinality(users)

Next ==
  \/ \E u \in users, id \in ListIds : GetList(u, id)
  \/ \E u \in users, t \in TextInputs : listSeq < MaxLists /\ CreateList(u, t)
  \/ \E u \in users, id \in ListIds, t \in TextInputs : UpdateList(u, id, t)
  \/ \E u \in users, id \in ListIds : DeleteList(u, id)
  \/ \E u \in users, id \in ListIds, gs \in GroupIdArrays : ShareList(u, id, gs)
  \/ \E u \in users, id \in ListIds, g \in GroupIds : UnshareList(u, id, g)
  \/ \E u \in users, n \in GroupNames, d \in GroupDescriptions \cup {Undefined} :
        groupSeq < MaxGroups /\ CreateGroup(u, n, d)
  \/ \E u \in users, g \in GroupIds : GetGroup(u, g)
  \/ \E u \in users, g \in GroupIds : GetGroupMembers(u, g)
  \/ \E u \in users, g \in GroupIds : GetGroupSharedLists(u, g)
  \/ \E u \in users, g \in GroupIds : DeleteGroup(u, g)
  \/ \E u \in users, g \in GroupIds, m \in AnyUserId : AddMember(u, g, m)
  \/ \E u \in users, g \in GroupIds, m \in AnyUserId : RemoveMember(u, g, m)
  \/ \E u \in users, g \in GroupIds, l \in ListIds : ShareListWithGroup(u, g, l)
  \/ \E u \in users, g \in GroupIds, l \in ListIds : UnshareListFromGroup(u, g, l)
  \/ \E u \in users, l \in ListIds : GetItems(u, l)
  \/ \E u \in users, l \in ListIds, i \in ItemIds : GetItem(u, l, i)
  \/ \E u \in users, l \in ListIds, t \in ItemTitles, d \in ItemDescriptions \cup {Undefined} :
        itemSeq < MaxItems /\ CreateItem(u, l, t, d)
  \/ \E u \in users, l \in ListIds, i \in ItemIds,
        t \in ItemTitles \cup {Undefined}, d \in ItemDescriptions \cup {Undefined} :
        UpdateItem(u, l, i, t, d)
  \/ \E u \in users, l \in ListIds, i \in ItemIds : DeleteItem(u, l, i)
  \/ \E u \in users, l \in ListIds, i \in ItemIds : GetComments(u, l, i)
  \/ \E u \in users, l \in ListIds, i \in ItemIds, c \in CommentIds : GetComment(u, l, i, c)
  \/ \E u \in users, l \in ListIds, i \in ItemIds, t \in TextInputs :
        commentSeq < MaxComments /\ CreateComment(u, l, i, t)
  \/ \E u \in users, l \in ListIds, i \in ItemIds, c \in CommentIds, t \in TextInputs :
        UpdateComment(u, l, i, c, t)
  \/ \E u \in users, l \in ListIds, i \in ItemIds, c \in CommentIds : DeleteComment(u, l, i, c)
  \/ \E u \in users, g \in GroupIds, up \in GroupUpdates : UpdateGroup(u, g, up)

Spec == Init /\ [][Next]_vars

(* ---------------- the store around the caps ---------------- *)

(* stores that sequences of successful requests build, each one request    *)
(* short of a cap                                                          *)
BulkUsers == {"m" \o ToString(n) : n \in 1..(MemberLimit - 1)}

ListsNearCap ==
  /\ users = UserIds
  /\ lists = [l \in 1..(ListLimit - 1) |-> [user |-> "u1", title |-> "a"]]
  /\ listSeq = ListLimit - 1
  /\ groups = <<>> /\ groupSeq = 0 /\ members = {} /\ shared = {}
  /\ items = <<>> /\ itemSeq = 0
  /\ comments = <<>> /\ commentSeq = 0
  /\ pending = {}
  /\ accounts = RegisteredAccounts(users)
  /\ userSeq = Cardinality(users)

ItemsNearCap ==
  /\ users = UserIds
  /\ lists = 1 :> [user |-> "u1", title |-> "a"]
  /\ listSeq = 1
  /\ groups = <<>> /\ groupSeq = 0 /\ members = {} /\ shared = {}
  /\ items = [i \in 1..(ItemLimit - 1) |-> [list |-> 1, title |-> "a", description |-> "d"]]
  /\ itemSeq = ItemLimit - 1
  /\ comments = <<>> /\ commentSeq = 0
  /\ pending = {}
  /\ accounts = RegisteredAccounts(users)
  /\ userSeq = Cardinality(users)

CommentsNearCap ==
  /\ users = UserIds
  /\ lists = 1 :> [user |-> "u1", title |-> "a"]
  /\ listSeq = 1
  /\ groups = 1 :> [name |-> "n", description |-> "d", createdBy |-> "u1"]
  /\ groupSeq = 1
  /\ members = {<<1, "u2">>}
  /\ shared = {<<1, 1>>}
  /\ items = 1 :> [list |-> 1, title |-> "a", description |-> "d"]
  /\ itemSeq = 1
  /\ comments = [c \in 1..(CommentLimit - 1) |->
                   [item |-> 1, sourceUser |-> "u2", text |-> "a"]]
  /\ commentSeq = CommentLimit - 1
  /\ pending = {}
  /\ accounts = RegisteredAccounts(users)
  /\ userSeq = Cardinality(users)

MembersNearCap ==
  /\ users = UserIds \cup BulkUsers
  /\ lists = <<>> /\ listSeq = 0
  /\ groups = 1 :> [name |-> "n", description |-> "d", createdBy |-> "u1"]
  /\ groupSeq = 1
  /\ members = {<<1, m>> : m \in BulkUsers}
  /\ shared = {}
  /\ items = <<>> /\ itemSeq = 0
  /\ comments = <<>> /\ commentSeq = 0
  /\ pending = {}
  /\ accounts = RegisteredAccounts(users)
  /\ userSeq = Cardinality(users)

(* list 1 shared with n groups, group 1 not among them *)
SharesNearCap(n) ==
  /\ users = UserIds
  /\ lists = 1 :> [user |-> "u1", title |-> "a"]
  /\ listSeq = 1
  /\ groups = [g \in 1..(n + 1) |-> [name |-> "n", description |-> "d", createdBy |-> "u1"]]
  /\ groupSeq = n + 1
  /\ members = {}
  /\ shared = {<<g, 1>> : g \in 2..(n + 1)}
  /\ items = <<>> /\ itemSeq = 0
  /\ comments = <<>> /\ commentSeq = 0
  /\ pending = {}
  /\ accounts = RegisteredAccounts(users)
  /\ userSeq = Cardinality(users)

LimitInit ==
  \/ ListsNearCap
  \/ ItemsNearCap
  \/ CommentsNearCap
  \/ MembersNearCap
  \/ \E n \in {ShareLimit - 1, ShareLimit} : SharesNearCap(n)

(* creation is explored from one row short of the cap to MaxOver past it *)
NearCap(seq, cap) == seq >= cap - 1 /\ seq < cap + MaxOver

LimitNext ==
  \/ \E u \in UserIds, t \in TextInputs : NearCap(listSeq, ListLimit) /\ CreateList(u, t)
  \/ \E u \in UserIds, id \in ListIds : DeleteList(u, id)
  \/ \E u \in UserIds, id \in ListIds, gs \in GroupIdArrays : ShareList(u, id, gs)
  \/ \E u \in UserIds, id \in ListIds, g \in GroupIds : UnshareList(u, id, g)
  \/ \E u \in UserIds, g \in GroupIds, m \in AnyUserId : AddMember(u, g, m)
  \/ \E u \in UserIds, g \in GroupIds, m \in AnyUserId : RemoveMember(u, g, m)
  \/ \E u \in UserIds, g \in GroupIds, l \in ListIds : ShareListWithGroup(u, g, l)
  \/ \E u \in UserIds, g \in GroupIds, l \in ListIds : UnshareListFromGroup(u, g, l)
  \/ \E u \in UserIds, l \in ListIds, t \in ItemTitles, d \in ItemDescriptions \cup {Undefined} :
        NearCap(itemSeq, ItemLimit) /\ CreateItem(u, l, t, d)
  \/ \E u \in UserIds, l \in ListIds, i \in ItemIds : DeleteItem(u, l, i)
  \/ \E u \in UserIds, l \in ListIds, i \in ItemIds, t \in TextInputs :
        NearCap(commentSeq, CommentLimit) /\ CreateComment(u, l, i, t)
  \/ \E u \in UserIds, l \in ListIds, i \in ItemIds, c \in CommentIds : DeleteComment(u, l, i, c)

LimitSpec == LimitInit /\ [][LimitNext]_vars

(* ---------------- interleaved creations ---------------- *)

(* A creating handler awaits the count query and later awaits the save;    *)
(* between the two awaits the event loop runs other handlers. A request    *)
(* that passed the count check and has not yet saved is in `pending`.      *)

(* POST /lists up to `if (userListCount >= 100)` *)
CreateListCount(userId, title) ==
  /\ Cardinality(pending) < MaxInFlight
  /\ CreateListH(userId, title).status = 201
  /\ pending' = pending \cup
       {[kind |-> "list", userId |-> userId, itemId |-> 0, text |-> Trim(title)]}
  /\ UNCHANGED <<users, lists, listSeq, groups, groupSeq, members, shared,
                 items, itemSeq, comments, commentSeq, accounts, userSeq>>

(* POST /lists from listRepository.create to the reply *)
CreateListSave(req) ==
  /\ req \in pending
  /\ req.kind = "list"
  /\ lists' = (listSeq + 1) :> [user |-> req.userId, title |-> req.text] @@ lists
  /\ listSeq' = listSeq + 1
  /\ pending' = pending \ {req}
  /\ UNCHANGED <<users, groups, groupSeq, members, shared, items, itemSeq, comments, commentSeq,
                 accounts, userSeq>>

(* POST comments up to `if (commentCount >= 100)` *)
CreateCommentCount(userId, listId, itemId, text) ==
  /\ Cardinality(pending) < MaxInFlight
  /\ CreateCommentH(userId, listId, itemId, text).status = 201
  /\ pending' = pending \cup
       {[kind |-> "comment", userId |-> userId, itemId |-> itemId, text |-> Trim(text)]}
  /\ UNCHANGED <<users, lists, listSeq, groups, groupSeq, members, shared,
                 items, itemSeq, comments, commentSeq, accounts, userSeq>>

(* POST comments from commentRepository.create to the reply; the insert    *)
(* fails on its foreign key when the item is gone                          *)
CreateCommentSave(req) ==
  /\ req \in pending
  /\ req.kind = "comment"
  /\ IF req.itemId \in DOMAIN items
       THEN /\ comments' = (commentSeq + 1) :>
                             [item |-> req.itemId, sourceUser |-> req.userId, text |-> req.text]
                           @@ comments
            /\ commentSeq' = commentSeq + 1
       ELSE UNCHANGED <<comments, commentSeq>>
  /\ pending' = pending \ {req}
  /\ UNCHANGED <<users, lists, listSeq, groups, groupSeq, members, shared, items, itemSeq,
                 accounts, userSeq>>

RaceInit == ListsNearCap \/ CommentsNearCap

RaceNext ==
  \/ \E u \in UserIds, t \in TextInputs :
        NearCap(listSeq, ListLimit) /\ CreateListCount(u, t)
  \/ \E req \in pending : CreateListSave(req)
  \/ \E u \in UserIds, l \in ListIds, i \in ItemIds, t \in TextInputs :
        NearCap(commentSeq, CommentLimit) /\ CreateCommentCount(u, l, i, t)
  \/ \E req \in pending : CreateCommentSave(req)
  \/ \E u \in UserIds, id \in ListIds : DeleteList(u, id)
  \/ \E u \in UserIds, l \in ListIds, i \in ItemIds, c \in CommentIds : DeleteComment(u, l, i, c)

RaceSpec == RaceInit /\ [][RaceNext]_vars

(* ---------------- accounts: an empty users table ---------------- *)

UserInit ==
  /\ users = {}
  /\ lists = <<>>
  /\ listSeq = 0
  /\ groups = <<>>
  /\ groupSeq = 0
  /\ members = {}
  /\ shared = {}
  /\ items = <<>>
  /\ itemSeq = 0
  /\ comments = <<>>
  /\ commentSeq = 0
  /\ pending = {}
  /\ accounts = <<>>
  /\ userSeq = 0

UserNext ==
  \/ \E e \in Emails, n \in UserNames \cup {Undefined}, p \in Passwords :
        userSeq < MaxUsers /\ CreateUser(e, n, p)
  \/ \E e \in Emails, n \in UserNames \cup {Undefined} :
        userSeq < MaxUsers /\ InviteUser(e, n)
  \/ \E e \in Emails, n \in UserNames \cup {Undefined}, p \in Passwords : Activate(e, n, p)
  \/ \E u \in users, e \in Emails \cup {Undefined}, n \in UserNames \cup {Undefined} :
        UpdateMe(u, e, n)
  \/ \E u \in users, c \in Passwords \cup {DefaultPassword}, p \in Passwords :
        ChangePassword(u, c, p)
  \/ \E u \in users, id \in UserIds, up \in UserUpdates : UpdateUser(u, id, up)
  \/ \E u \in users, id \in UserIds : DeleteUser(u, id)
  \/ \E u \in users, n \in GroupNames : groupSeq < MaxGroups /\ CreateGroup(u, n, Undefined)
  \/ \E u \in users, g \in GroupIds, m \in AnyUserId : AddMember(u, g, m)
  \/ \E u \in users, g \in GroupIds, m \in AnyUserId : RemoveMember(u, g, m)

UserSpec == UserInit /\ [][UserNext]_vars

(* ---------------- claims on accounts, ownership and the list index ---------------- *)

(* the n-th user row created since the users table was empty *)
CreatedUser(n) == "u" \o ToString(n)

(* C23 as stated: adding to a group someone who is no user yet creates an  *)
(* unactivated user and then the membership edge, so the group creator's   *)
(* add-member request for an identity that names no user is accepted and   *)
(* the membership edge exists afterwards.                                  *)
C23_AddMemberResolvesOrCreates ==
  \A g \in DOMAIN groups : \A m \in AnyUserId \ users :
    LET r == AddMemberH(groups[g].createdBy, g, m) IN
      /\ r.status = 201
      /\ <<g, m>> \in r.members

(* C24 as stated: over any step the activated flag of a user never returns *)
(* to false, and it turns from false to true only in a step of the         *)
(* activation flow.                                                        *)
C24_ActivatedExactlyOnce ==
  [][\A u \in DOMAIN accounts \cap DOMAIN accounts' :
       /\ accounts[u].activated => accounts'[u].activated
       /\ (~accounts[u].activated /\ accounts'[u].activated) =>
            \E e \in Emails, n \in UserNames \cup {Undefined}, p \in Passwords :
              /\ ActivateH(e, n, p).status = 200
              /\ accounts' = ActivateH(e, n, p).accounts]_vars

(* C25 as stated: no two users have emails that are equal ignoring letter  *)
(* case.                                                                   *)
C25_EmailUniqueIgnoringCase ==
  \A u, v \in DOMAIN accounts :
    u # v => Lower(accounts[u].email) # Lower(accounts[v].email)

(* C26 as stated: no request a user makes on their own account changes its *)
(* roles or its activated flag or deletes it, so every user created with   *)
(* role 'user' still exists and does not hold the admin role.              *)
C26_SelfServiceEmailAndNameOnly ==
  /\ \A u \in DOMAIN accounts :
       /\ DeleteUserH(u, u).status # 204
       /\ \A up \in UserUpdates :
            LET r == UpdateUserH(u, u, up) IN
              /\ r.accounts[u].roles = accounts[u].roles
              /\ r.accounts[u].activated = accounts[u].activated
  /\ \A n \in 1..userSeq :
       /\ CreatedUser(n) \in DOMAIN accounts
       /\ "admin" \notin accounts[CreatedUser(n)].roles

(* C27 as stated: over any step a group's creator, a list's owner, an      *)
(* item's parent list and a comment's item and author stay as they were    *)
(* at creation; a group update cannot rewrite the creator.                 *)
C27_OwnershipImmutable ==
  [][/\ \A g \in DOMAIN groups \cap DOMAIN groups' :
          groups'[g].createdBy = groups[g].createdBy
     /\ \A l \in DOMAIN lists \cap DOMAIN lists' : lists'[l].user = lists[l].user
     /\ \A i \in DOMAIN items \cap DOMAIN items' : items'[i].list = items[i].list
     /\ \A c \in DOMAIN comments \cap DOMAIN comments' :
          /\ comments'[c].item = comments[c].item
          /\ comments'[c].sourceUser = comments[c].sourceUser]_vars

(* a list id that names no list *)
NoList == listSeq + 1

(* C22 as stated: for a requester with no read access to a list, every     *)
(* list, item and comment request addressed to that list has the same      *)
(* outcome as the same request addressed to a list id that does not exist, *)
(* and that outcome is never Forbidden.                                    *)
C22_ExistenceNotLeaked ==
  \A u \in users, l \in DOMAIN lists :
    ~canReadList(u, l) =>
      /\ GetListStatus(u, l) = GetListStatus(u, NoList)
      /\ GetListStatus(u, l) # 403
      /\ DeleteListH(u, l).status = DeleteListH(u, NoList).status
      /\ GetItemsStatus(u, l) = GetItemsStatus(u, NoList)
      /\ \A t \in TextInputs :
           UpdateListH(u, l, t).status = UpdateListH(u, NoList, t).status
      /\ \A i \in ItemIds :
           /\ GetItemStatus(u, l, i) = GetItemStatus(u, NoList, i)
           /\ DeleteItemH(u, l, i).status = DeleteItemH(u, NoList, i).status
           /\ GetCommentsStatus(u, l, i) = GetCommentsStatus(u, NoList, i)
           /\ GetCommentsStatus(u, l, i) # 403
           /\ \A c \in CommentIds, t \in TextInputs :
                /\ GetCommentStatus(u, l, i, c) = GetCommentStatus(u, NoList, i, c)
                /\ CreateCommentH(u, l, i, t).status = CreateCommentH(u, NoList, i, t).status
                /\ UpdateCommentH(u, l, i, c, t).status
                     = UpdateCommentH(u, NoList, i, c, t).status
                /\ DeleteCommentH(u, l, i, c).status = DeleteCommentH(u, NoList, i, c).status

(* the groups named in a share request *)
GroupsOf(groupIds) == {groupIds[k] : k \in 1..Len(groupIds)}

(* C30 as stated: the owner's POST /lists/:id/share naming groups the      *)
(* owner belongs to is rejected for the limit exactly when the number of   *)
(* distinct groups the list would be shared with afterwards exceeds 100;   *)
(* an accepted request adds each new group once and changes nothing else.  *)
C30_ShareLimitCountsExactly ==
  \A l \in DOMAIN lists, gs \in GroupIdArrays :
    LET owner == lists[l].user
        r == ShareListH(owner, l, gs)
        after == SharedWithGroups(l) \cup GroupsOf(gs)
    IN ShareCheck(owner, gs, 1) = 200 =>
         /\ r.status = 400 <=> Cardinality(after) > ShareLimit
         /\ r.status = 200 => r.shared = shared \cup {<<g, l>> : g \in GroupsOf(gs)}

(* ---------------- the list index ---------------- *)

(* a set of list ids, newest first (order: { createdAt: 'DESC' }) *)
RECURSIVE OrderDesc(_)
OrderDesc(S) ==
  IF S = {} THEN <<>>
  ELSE LET m == CHOOSE x \in S : \A y \in S : y <= x IN <<m>> \o OrderDesc(S \ {m})

(* listRepository.find({ where: { user: userId }, order: { createdAt: 'DESC' } }) *)
OwnedListsQuery(userId) == OrderDesc({l \in DOMAIN lists : lists[l].user = userId})

(* the rows of the query builder of GET /lists:                            *)
(* list LEFT JOIN sharedWithGroups LEFT JOIN members                       *)
(* WHERE list.user != :userId AND (group.createdBy = :userId OR member.id = :userId) *)
(* one row <<list, group, member>> per joined triple, member NULL for a    *)
(* group without members                                                   *)
SharedListsRows(userId) ==
  {row \in (DOMAIN lists) \X (DOMAIN groups) \X (users \cup {Null}) :
     /\ <<row[2], row[1]>> \in shared
     /\ IF \E m \in users : <<row[2], m>> \in members
          THEN <<row[2], row[3]>> \in members
          ELSE row[3] = Null
     /\ lists[row[1]].user # userId
     /\ (groups[row[2]].createdBy = userId \/ row[3] = userId)}

(* .orderBy('list.createdAt', 'DESC') *)
RECURSIVE RowsOrdered(_)
RowsOrdered(rows) ==
  IF rows = {} THEN <<>>
  ELSE LET r == CHOOSE x \in rows : \A y \in rows : y[1] <= x[1]
       IN <<r>> \o RowsOrdered(rows \ {r})

Contains(seq, id) == \E k \in 1..Len(seq) : seq[k] = id

(* .getMany(): the rows are folded into one entity per list id *)
RECURSIVE GetMany(_, _)
GetMany(rows, entities) ==
  IF rows = <<>> THEN entities
  ELSE GetMany(Tail(rows),
               IF Contains(entities, Head(rows)[1]) THEN entities
               ELSE Append(entities, Head(rows)[1]))

(* for (const sharedList of sharedLists) if (!allLists.find(...)) allLists.push(sharedList) *)
RECURSIVE PushShared(_, _)
PushShared(allLists, sharedLists) ==
  IF sharedLists = <<>> THEN allLists
  ELSE PushShared(IF Contains(allLists, Head(sharedLists)) THEN allLists
                  ELSE Append(allLists, Head(sharedLists)),
                  Tail(sharedLists))

(* allLists.sort((a, b) => new Date(b.createdAt) - new Date(a.createdAt)) *)
RECURSIVE SortByCreatedAt(_)
SortByCreatedAt(seq) ==
  IF seq = <<>> THEN <<>>
  ELSE LET k == CHOOSE j \in 1..Len(seq) : \A i \in 1..Len(seq) : seq[i] <= seq[j]
       IN <<seq[k]>> \o SortByCreatedAt(SubSeq(seq, 1, k - 1) \o SubSeq(seq, k + 1, Len(seq)))

(* mutant: the owned lists followed by one entry per row of the join *)
GetListsH_Concat(userId) ==
  LET rows == RowsOrdered(SharedListsRows(userId))
  IN SortByCreatedAt(OwnedListsQuery(userId) \o [k \in 1..Len(rows) |-> rows[k][1]])

(* GET /lists: the ids of the lists in the reply, in order *)
GetListsH(userId) ==
  SortByCreatedAt(PushShared(OwnedListsQuery(userId),
                             GetMany(RowsOrdered(SharedListsRows(userId)), <<>>)))

GetLists(userId) ==
  /\ Len(GetListsH(userId)) <= Cardinality(DOMAIN lists)
  /\ UNCHANGED store

(* GET /lists/:listId/items/:itemId/comments: the comments in the reply *)
GetCommentsH(userId, listId, itemId) ==
  IF GetCommentsStatus(userId, listId, itemId) # 200 THEN {}
  ELSE CommentsOfItem(itemId)

(* the reply of POST comments once the save has been awaited: the insert   *)
(* of a comment whose item is gone throws and the catch block replies 500  *)
CreateCommentSaveStatus(req) ==
  IF req.itemId \in DOMAIN items THEN 201 ELSE 500

(* ---------------- several lists and groups ---------------- *)

CrossIds == 1..MaxCross
CrossUser(n) == "u" \o ToString(n)
CrossTexts == {"a", " "}
CrossGroupIdArrays == UNION {[1..n -> CrossIds] : n \in 0..MaxShareReq}

(* user n owns list n, which holds item n, and created group n, to which   *)
(* every other user belongs; nothing is shared and no comment is written   *)
CrossInit ==
  /\ users = UserIds
  /\ lists = [l \in CrossIds |-> [user |-> CrossUser(l), title |-> "a"]]
  /\ listSeq = MaxCross
  /\ groups = [g \in CrossIds |-> [name |-> "n", description |-> "d", createdBy |-> CrossUser(g)]]
  /\ groupSeq = MaxCross
  /\ members = {<<g, u>> : g \in CrossIds, u \in UserIds} \ {<<g, CrossUser(g)>> : g \in CrossIds}
  /\ shared = {}
  /\ items = [i \in CrossIds |-> [list |-> i, title |-> "a", description |-> Null]]
  /\ itemSeq = MaxCross
  /\ comments = <<>>
  /\ commentSeq = 0
  /\ pending = {}
  /\ accounts = RegisteredAccounts(users)
  /\ userSeq = Cardinality(users)

CrossNext ==
  \/ \E u \in users : GetLists(u)
  \/ \E u \in users, id \in CrossIds, gs \in CrossGroupIdArrays : ShareList(u, id, gs)
  \/ \E u \in users, id \in CrossIds, g \in CrossIds : UnshareList(u, id, g)
  \/ \E u \in users, g \in CrossIds, l \in CrossIds : ShareListWithGroup(u, g, l)
  \/ \E u \in users, g \in CrossIds, l \in CrossIds : UnshareListFromGroup(u, g, l)
  \/ \E u \in users, g \in CrossIds : \E m \in AnyUserId \ {u} : AddMember(u, g, m)
  \/ \E u \in users, g \in CrossIds, m \in AnyUserId : RemoveMember(u, g, m)
  \/ \E u \in users, l \in CrossIds, i \in CrossIds : DeleteItem(u, l, i)
  \/ \E u \in users, l \in CrossIds, i \in CrossIds : GetComments(u, l, i)
  \/ \E u \in users, l \in CrossIds, i \in CrossIds, c \in CommentIds : GetComment(u, l, i, c)
  \/ \E u \in users, l \in CrossIds, i \in CrossIds, t \in CrossTexts :
        commentSeq + Cardinality(pending) < MaxComments /\ CreateCommentCount(u, l, i, t)
  \/ \E req \in pending : CreateCommentSave(req)
  \/ \E u \in users, l \in CrossIds, i \in CrossIds, c \in CommentIds, t \in CrossTexts :
        UpdateComment(u, l, i, c, t)
  \/ \E u \in users, l \in CrossIds, i \in CrossIds, c \in CommentIds : DeleteComment(u, l, i, c)

CrossSpec == CrossInit /\ [][CrossNext]_vars

(* C21 as stated: when the item is deleted while a create-comment request  *)
(* is between its access check and its save, the request ends with a       *)
(* parent-has-been-deleted error of its own, not with a generic not-found  *)
(* (404) or server error (500), and no comment is stored.                  *)
C21_ParentDeletedIsDistinct ==
  \A req \in pending :
    (req.kind = "comment" /\ req.itemId \notin DOMAIN items) =>
      CreateCommentSaveStatus(req) \notin {201, 404, 500}

(* C28: a comment request succeeds only when its list id is the list that *)
(* contains the item and its comment id belongs to the item, it reads or   *)
(* changes comments of that item only, and whoever owns the list of an     *)
(* item reaches its comments through no list id at all.                    *)
C28_CommentAccessBoundToItemsList ==
  \A u \in users, l \in CrossIds, i \in CrossIds :
    /\ GetCommentsStatus(u, l, i) = 200 => FindItem(i, l)
    /\ \A c \in GetCommentsH(u, l, i) : comments[c].item = i /\ items[i].list = l
    /\ (i \in DOMAIN items /\ lists[items[i].list].user = u) =>
         GetCommentsStatus(u, l, i) # 200
    /\ \A t \in CrossTexts :
         LET r == CreateCommentH(u, l, i, t) IN
           r.status = 201 =>
             /\ FindItem(i, l)
             /\ lists[items[i].list].user # u
             /\ \A c \in DOMAIN r.comments :
                  IF c \in DOMAIN comments THEN r.comments[c] = comments[c]
                  ELSE r.comments[c].item = i
    /\ \A c \in CommentIds :
         /\ GetCommentStatus(u, l, i, c) = 200 =>
              FindItem(i, l) /\ FindComment(c, i) /\ lists[items[i].list].user # u
         /\ \A t \in CrossTexts :
              LET r == UpdateCommentH(u, l, i, c, t) IN
                r.status = 200 =>
                  /\ FindItem(i, l) /\ FindComment(c, i)
                  /\ lists[items[i].list].user # u
                  /\ \A d \in DOMAIN comments \ {c} : r.comments[d] = comments[d]
         /\ LET r == DeleteCommentH(u, l, i, c) IN
              r.status = 204 =>
                /\ FindItem(i, l) /\ FindComment(c, i)
                /\ lists[items[i].list].user # u
                /\ DOMAIN r.comments = DOMAIN comments \ {c}
                /\ \A d \in DOMAIN r.comments : r.comments[d] = comments[d]

(* C28 witness: u owns the list of item i, which has a comment; another    *)
(* list is shared with a group u belongs to, so u reads the comments of    *)
(* that list's own item, and the request for item i through it is denied.  *)
C28_Witness ==
  \E u \in users, i \in DOMAIN items, l \in DOMAIN lists, j \in DOMAIN items :
    /\ lists[items[i].list].user = u
    /\ CommentsOfItem(i) # {}
    /\ l # items[i].list
    /\ canReadComments(u, l)
    /\ items[j].list = l
    /\ GetCommentsStatus(u, l, j) = 200
    /\ GetCommentsStatus(u, l, i) = 404

(* the ids in the reply of GET /lists *)
Listed(userId) == {GetListsH(userId)[k] : k \in 1..Len(GetListsH(userId))}

(* C29: GET /lists for U returns a list exactly when GET /lists/:id for U  *)
(* on that list succeeds, that is for the lists U owns or reaches through  *)
(* a group U created or belongs to, and returns each such list once.       *)
C29_IndexAgreesWithSingleAccess ==
  \A u \in users :
    /\ \A l \in CrossIds : l \in Listed(u) <=> GetListStatus(u, l) = 200
    /\ \A l \in DOMAIN lists : l \in Listed(u) <=> canReadList(u, l)
    /\ Len(GetListsH(u)) = Cardinality(Listed(u))

(* C29 witness: a list is shared with two groups of a user who does not    *)
(* own it, another user reaches no list but their own, and the first       *)
(* user's index holds the shared list next to the owned one.               *)
C29_Witness ==
  \E u \in users, l \in DOMAIN lists :
    /\ lists[l].user # u
    /\ Cardinality(SharedGroupsQuery(u, l)) >= 2
    /\ Cardinality(SharedListsRows(u)) >= 2
    /\ Len(GetListsH(u)) >= 2
    /\ \E v \in users, k \in DOMAIN lists : ~canReadList(v, k)

====
